---- MODULE Spec2Model ----
(***************************************************************************)
(* A model of fastproxy's HTTP header parser (header/header.go) and of the *)
(* proxy handler that serves CONNECT and plain requests (proxy handler:    *)
(* do, tunnelConnect, decryptConnect).                                     *)
(*                                                                         *)
(* Bytes are one-character strings, byte slices are sequences of them.     *)
(* Go's 0-based indexes are kept in the results of IndexByte and in the    *)
(* lengths readHeaders returns; SubSeq converts at the point of use.       *)
(***************************************************************************)
EXTENDS Integers, Sequences, FiniteSets, TLC

VARIABLES
    block,      \* the header block the peer sends, terminating empty line included
    win,        \* bufio.Reader: the buffered window b.buf[b.r:b.w]
    discarded,  \* bufio.Reader: bytes discarded since ParseHeaderFields was called
    closed,     \* the connection under the reader returned an error (EOF, reset)
    n,          \* ParseHeaderFields: the argument of the next Peek
    pc,         \* ParseHeaderFields: "parse" inside the loop, "done" once returned
    result,     \* ParseHeaderFields: the error returned ("nil" on success)
    header,     \* Header{isConnectionClose, contentLength}
    buffer,     \* the target ByteBuffer's content
    cap,        \* the target ByteBuffer's fixed capacity
    retried,    \* some tryRead of this call returned errNeedMore
    sess,       \* proxy handler: each session's position and locals
    tokens,     \* superProxy: tokens left in its pool
    counters,   \* the usage counters: usage, client.Usage, superProxy.Usage
    handler,    \* Handler: whether its URLProxy callback is set
    writer,     \* WriteWithValidation: the writer, nil or a fixed-size ByteBuffer
    wcap,       \* the capacity the ByteBuffer was made with
    wprev,      \* the writer as it was before the last write
    wp,         \* the bytes of the last write
    wn,         \* the count the last write returned
    werr        \* the error the last write returned

pvars == <<block, win, discarded, closed, n, pc, result, header, buffer, cap, retried>>

svars == <<sess, tokens, counters, handler>>

bvars == <<writer, wcap, wprev, wp, wn, werr>>

vars == <<pvars, svars, bvars>>

----------------------------------------------------------------------------
(* Bytes and the byte-slice functions of Go's bytes, strings and strconv.  *)

CR == "\r"
LF == "\n"

Upper == <<"A","B","C","D","E","F","G","H","I","J","K","L","M",
           "N","O","P","Q","R","S","T","U","V","W","X","Y","Z">>
Lower == <<"a","b","c","d","e","f","g","h","i","j","k","l","m",
           "n","o","p","q","r","s","t","u","v","w","x","y","z">>
Digits == <<"0","1","2","3","4","5","6","7","8","9">>

Slice(s, from, to) == SubSeq(s, from + 1, to)

IndexByte(s, c) ==
    IF \E i \in 1..Len(s) : s[i] = c
    THEN (CHOOSE i \in 1..Len(s) : s[i] = c /\ \A j \in 1..(i - 1) : s[j] # c) - 1
    ELSE -1

HasPrefix(s, prefix) ==
    Len(s) >= Len(prefix) /\ SubSeq(s, 1, Len(prefix)) = prefix

Contains(s, sub) ==
    \E i \in 0..(Len(s) - Len(sub)) : SubSeq(s, i + 1, i + Len(sub)) = sub

toLower(c) ==
    IF \E i \in 1..26 : Upper[i] = c
    THEN Lower[CHOOSE i \in 1..26 : Upper[i] = c]
    ELSE c

changeToLowerCase(line) == [i \in 1..Len(line) |-> toLower(line[i])]

IsSpace(c) == c \in {" ", "\t", "\n", "\r", "\f"}

TrimSpace(s) ==
    LET keep == {i \in 1..Len(s) : ~IsSpace(s[i])}
    IN  IF keep = {} THEN <<>>
        ELSE SubSeq(s, CHOOSE i \in keep : \A j \in keep : i <= j,
                       CHOOSE i \in keep : \A j \in keep : i >= j)

IsDigit(c) == \E d \in 1..10 : Digits[d] = c

DigitVal(c) == (CHOOSE d \in 1..10 : Digits[d] = c) - 1

RECURSIVE ParseUint(_, _)
ParseUint(s, acc) ==
    IF s = <<>> THEN acc ELSE ParseUint(Tail(s), 10 * acc + DigitVal(Head(s)))

\* strconv.ParseInt(s, 10, 64) with the error dropped: 0 on a syntax error.
ParseInt(s) ==
    LET signed == s # <<>> /\ Head(s) \in {"+", "-"}
        digits == IF signed THEN Tail(s) ELSE s
    IN  IF digits = <<>> \/ \E i \in 1..Len(digits) : ~IsDigit(digits[i]) THEN 0
        ELSE IF signed /\ Head(s) = "-" THEN 0 - ParseUint(digits, 0)
        ELSE ParseUint(digits, 0)

----------------------------------------------------------------------------
(* header/header.go                                                        *)

connectionHeader == <<"C","o","n","n","e","c","t","i","o","n">>
contentLengthHeader == <<"C","o","n","t","e","n","t","-","L","e","n","g","t","h">>
transferEncoding == <<"T","r","a","n","s","f","e","r","-","E","n","c","o","d","i","n","g">>
AcceptEncoding == <<"A","c","c","e","p","t","-","E","n","c","o","d","i","n","g">>
ProxyConnection == <<"P","r","o","x","y","-","C","o","n","n","e","c","t","i","o","n">>
ProxyAuthenticate == <<"P","r","o","x","y","-","A","u","t","h","e","n","t","i","c","a","t","e">>
ProxyAuthorization == <<"P","r","o","x","y","-","A","u","t","h","o","r","i","z","a","t","i","o","n">>

proxyHeaders == <<AcceptEncoding, ProxyConnection, ProxyAuthenticate, ProxyAuthorization>>

closeToken == <<"c","l","o","s","e">>
chunkedToken == <<"c","h","u","n","k","e","d">>
identityToken == <<"i","d","e","n","t","i","t","y">>

errNil == "nil"
errNeedMore == "need more data: cannot find trailing lf"
errShortBuffer == "short buffer"
errEOF == "EOF"
errReset == "connection reset by peer"

\* tryRead's errWrapper, and the same format applied to io.EOF (header.go:77-79, 85)
errWrapper(err) == "error when reading http headers: " \o err

Reset(h) == [isConnectionClose |-> FALSE, contentLength |-> 0]

IsConnectionClose(h) == h.isConnectionClose

ContentLength(h) == IF h.contentLength > 0 THEN h.contentLength ELSE 0

IsBodyChunked(h) == h.contentLength = -1

IsBodyIdentity(h) == h.contentLength = -2

\* the loop stops one entry short of the list
isProxyHeader_Mutant(line) ==
    \E i \in 1..(Len(proxyHeaders) - 1) : HasPrefix(line, proxyHeaders[i])

isProxyHeader(line) ==
    \E i \in 1..Len(proxyHeaders) : HasPrefix(line, proxyHeaders[i])

isConnectionHeader(line) == HasPrefix(line, connectionHeader)

isContentLengthHeader(line) == HasPrefix(line, contentLengthHeader)

isTransferEncodingHeader(line) == HasPrefix(line, transferEncoding)

\* A ByteBuffer that grows to take whatever is written.
Write_Mutant(B, p, capacity) == [B |-> B \o p, err |-> errNil]

\* The fixed-size ByteBuffer: a write that does not fit fails and appends nothing.
Write(B, p, capacity) ==
    IF Len(B) + Len(p) > capacity
    THEN [B |-> B, err |-> errShortBuffer]
    ELSE [B |-> B \o p, err |-> errNil]

\* close is searched for in the line as received
connectionLine_Mutant(h, rawHeaderLine) ==
    [h |-> IF Contains(rawHeaderLine, closeToken)
           THEN [h EXCEPT !.isConnectionClose = TRUE]
           ELSE h,
     line |-> changeToLowerCase(rawHeaderLine)]

\* header.go:118-124: the line is lowercased in place, then searched for close.
connectionLine(h, rawHeaderLine) ==
    LET lowered == changeToLowerCase(rawHeaderLine)
    IN  [h |-> IF Contains(lowered, closeToken)
               THEN [h EXCEPT !.isConnectionClose = TRUE]
               ELSE h,
         line |-> lowered]

\* a negative length is stored too
parseContentLength_Signed(h, line) ==
    LET lengthBytesIndex == IndexByte(line, ":")
    IN  IF lengthBytesIndex > 0
        THEN LET length == ParseInt(TrimSpace(Slice(line, lengthBytesIndex + 1, Len(line))))
             IN  IF length # 0 THEN [h EXCEPT !.contentLength = length] ELSE h
        ELSE h

\* a length of 0 is stored too
parseContentLength_Mutant(h, line) ==
    LET lengthBytesIndex == IndexByte(line, ":")
    IN  IF lengthBytesIndex > 0
        THEN LET length == ParseInt(TrimSpace(Slice(line, lengthBytesIndex + 1, Len(line))))
             IN  IF length >= 0 THEN [h EXCEPT !.contentLength = length] ELSE h
        ELSE h

\* header.go:131-139
parseContentLength(h, line) ==
    LET lengthBytesIndex == IndexByte(line, ":")
    IN  IF lengthBytesIndex > 0
        THEN LET length == ParseInt(TrimSpace(Slice(line, lengthBytesIndex + 1, Len(line))))
             IN  IF length > 0 THEN [h EXCEPT !.contentLength = length] ELSE h
        ELSE h

\* header.go:140-146
parseTransferEncoding(h, line) ==
    IF Contains(line, chunkedToken) THEN [h EXCEPT !.contentLength = -1]
    ELSE IF Contains(line, identityToken) THEN [h EXCEPT !.contentLength = -2]
    ELSE h

\* the error of buffer.Write is dropped
parseThenWriteBuffer_Mutant(h, B, rawHeaderLine, capacity) ==
    IF isConnectionHeader(rawHeaderLine)
    THEN LET c == connectionLine(h, rawHeaderLine)
         IN  [h |-> c.h, B |-> B, line |-> c.line, err |-> errNil]
    ELSE LET h2 == IF isContentLengthHeader(rawHeaderLine)
                       THEN parseContentLength(h, rawHeaderLine)
                   ELSE IF isTransferEncodingHeader(rawHeaderLine)
                       THEN parseTransferEncoding(h, rawHeaderLine)
                   ELSE h
         IN  IF ~isProxyHeader(rawHeaderLine)
             THEN [h |-> h2, B |-> Write(B, rawHeaderLine, capacity).B,
                   line |-> rawHeaderLine, err |-> errNil]
             ELSE [h |-> h2, B |-> B, line |-> rawHeaderLine, err |-> errNil]

\* The closure parseThenWriteBuffer: the Header, the target buffer and the raw
\* line (a slice of the reader's window, rewritten in place) after the call.
parseThenWriteBuffer(h, B, rawHeaderLine, capacity) ==
    IF isConnectionHeader(rawHeaderLine)
    THEN LET c == connectionLine(h, rawHeaderLine)
         IN  [h |-> c.h, B |-> B, line |-> c.line, err |-> errNil]
    ELSE LET h2 == IF isContentLengthHeader(rawHeaderLine)
                       THEN parseContentLength(h, rawHeaderLine)
                   ELSE IF isTransferEncodingHeader(rawHeaderLine)
                       THEN parseTransferEncoding(h, rawHeaderLine)
                   ELSE h
         IN  IF ~isProxyHeader(rawHeaderLine)
             THEN LET w == Write(B, rawHeaderLine, capacity)
                  IN  [h |-> h2, B |-> w.B, line |-> rawHeaderLine, err |-> w.err]
             ELSE [h |-> h2, B |-> B, line |-> rawHeaderLine, err |-> errNil]

\* Is the line of m bytes at the head of b the empty line (header.go:162, 189)?
isEmptyLine(b, m) == (m = 2 /\ b[1] = CR) \/ m = 1

\* the empty line is left out of the header length
RECURSIVE restLines_Mutant(_, _, _, _, _, _)
restLines_Mutant(buf, off, len, h, B, capacity) ==
    LET b == Slice(buf, off, Len(buf))
        m == IndexByte(b, LF) + 1
        r == parseThenWriteBuffer(h, B, Slice(b, 0, m), capacity)
        buf2 == Slice(buf, 0, off) \o r.line \o Slice(buf, off + m, Len(buf))
    IN  IF m = 0
        THEN [n |-> 0, err |-> errNeedMore, h |-> h, B |-> <<>>, buf |-> buf]
        ELSE IF r.err # errNil
        THEN [n |-> 0, err |-> r.err, h |-> r.h, B |-> <<>>, buf |-> buf2]
        ELSE IF isEmptyLine(b, m)
        THEN [n |-> len, err |-> errNil, h |-> r.h, B |-> r.B, buf |-> buf2]
        ELSE restLines_Mutant(buf2, off + m, len + m, r.h, r.B, capacity)

\* header.go:173-192, the loop over the lines after the first; off is the
\* number of bytes of buf before b.
RECURSIVE restLines(_, _, _, _, _, _)
restLines(buf, off, len, h, B, capacity) ==
    LET b == Slice(buf, off, Len(buf))
        m == IndexByte(b, LF) + 1
        r == parseThenWriteBuffer(h, B, Slice(b, 0, m), capacity)
        buf2 == Slice(buf, 0, off) \o r.line \o Slice(buf, off + m, Len(buf))
    IN  IF m = 0
        THEN [n |-> 0, err |-> errNeedMore, h |-> h, B |-> <<>>, buf |-> buf]
        ELSE IF r.err # errNil
        THEN [n |-> 0, err |-> r.err, h |-> r.h, B |-> <<>>, buf |-> buf2]
        ELSE IF isEmptyLine(b, m)
        THEN [n |-> len + m, err |-> errNil, h |-> r.h, B |-> r.B, buf |-> buf2]
        ELSE restLines(buf2, off + m, len + m, r.h, r.B, capacity)

\* readHeaders: the header length and the error, with the Header, the target
\* buffer and the window bytes as the call leaves them.
readHeaders(buf, h, B, capacity) ==
    LET i == IndexByte(buf, LF)
        r == parseThenWriteBuffer(h, <<>>, Slice(buf, 0, i + 1), capacity)
        buf2 == r.line \o Slice(buf, i + 1, Len(buf))
    IN  IF i < 0
        THEN [n |-> 0, err |-> errNeedMore, h |-> h, B |-> B, buf |-> buf]
        ELSE IF isEmptyLine(buf, i + 1)
        THEN [n |-> i + 1, err |-> errNil, h |-> h, B |-> B, buf |-> buf]
        ELSE IF r.err # errNil
        THEN [n |-> 0, err |-> r.err, h |-> r.h, B |-> <<>>, buf |-> buf2]
        ELSE restLines(buf2, i + 1, i + 1, r.h, r.B, capacity)

\* A nil io.Writer, and the buffer MakeFixedSizeByteBuffer returns.
NilWriter == [isNil |-> TRUE, B |-> <<>>]

MakeFixedSizeByteBuffer == [isNil |-> FALSE, B |-> <<>>]

\* util.WriteWithValidation: nothing is written to a nil writer, and that is
\* no error; otherwise the writer's own Write decides.
WriteWithValidation(wr, p, capacity) ==
    IF wr.isNil
    THEN [w |-> wr, n |-> 0, err |-> errNil]
    ELSE LET r == Write(wr.B, p, capacity)
         IN  [w |-> [wr EXCEPT !.B = r.B],
              n |-> IF r.err = errNil THEN Len(p) ELSE 0,
              err |-> r.err]

NoWrites ==
    /\ writer = NilWriter
    /\ wcap = 0
    /\ wprev = NilWriter
    /\ wp = <<>>
    /\ wn = 0
    /\ werr = errNil

----------------------------------------------------------------------------
(* The proxy handler's sessions and the upstream proxy they share.         *)

NumSessions == 2
Sessions == 1..NumSessions

\* The concurrency limit of the one upstream proxy.
PoolSize == 1

NoHost == [domain |-> "", port |-> ""]

\* usage is the ProxyUsage the server hands to the handler, client.Usage the
\* one of the client, superProxy.Usage the one of the upstream proxy.
Counters == {"usage.in", "usage.out", "client.in", "client.out", "super.in", "super.out"}

NoUsage == [c \in Counters |-> 0]

\* The objects a session takes from a pool and has to give back.
Pooled == {"writer", "reader", "req", "resp", "hijacker", "token"}

NoForward == [n |-> 0, err |-> FALSE]

NoSizes == [proxyIncomingSize |-> 0, proxyOutgoingSize |-> 0,
            superProxyIncomingSize |-> 0, superProxyOutgoingSize |-> 0]

\* The locals of a handler (pc .. sizes), what it has acquired, released and
\* deferred, the accounting goroutines it started (gos: each the additions it
\* still has to make) with what they are to add in all (delta) and what they
\* have added (applied), the bytes that really passed between the session and
\* its client (io), and the calls it made (log).
NoSession ==
    [pc |-> "idle", fn |-> "", host |-> NoHost, superProxy |-> FALSE, held |-> FALSE,
     dialed |-> FALSE, sni |-> "", handShakeErr |-> errNil, replies |-> <<>>,
     err |-> errNil,
     fwd |-> {}, up |-> NoForward, down |-> NoForward, sizes |-> NoSizes,
     defers |-> <<>>, acquired |-> [k \in Pooled |-> 0], released |-> [k \in Pooled |-> 0],
     gos |-> <<>>, delta |-> NoUsage, applied |-> NoUsage,
     io |-> [read |-> 0, written |-> 0], log |-> <<>>]

----------------------------------------------------------------------------
(* The messages the peer may send: up to MaxLines header lines of the      *)
(* vocabulary below, the terminating empty line, then the first body bytes.*)

ContentLength5 == contentLengthHeader \o <<":"," ","5","\r","\n">>
ContentLength0 == contentLengthHeader \o <<":"," ","0","\r","\n">>
ContentLength12 == contentLengthHeader \o <<":"," ","1","2","\n">>

HeaderLines == {
    connectionHeader \o <<":"," ","C","l","o","s","e","\r","\n">>,
    connectionHeader \o <<":"," ","k","e","e","p","-","a","l","i","v","e","\r","\n">>,
    ContentLength5, ContentLength0, ContentLength12,
    transferEncoding \o <<":"," ","c","h","u","n","k","e","d","\r","\n">>,
    transferEncoding \o <<":"," ","i","d","e","n","t","i","t","y","\n">>,
    AcceptEncoding \o <<":"," ","g","z","i","p","\r","\n">>,
    ProxyConnection \o <<":"," ","c","l","o","s","e","\r","\n">>,
    ProxyAuthenticate \o <<":"," ","B","\r","\n">>,
    ProxyAuthorization \o <<":"," ","B","\r","\n">>,
    <<"X",":"," ","c","l","o","s","e","\r","\n">> }

EmptyLines == { <<CR, LF>>, <<LF>> }

MaxLines == 2

RECURSIVE Flatten(_)
Flatten(ls) == IF ls = <<>> THEN <<>> ELSE Head(ls) \o Flatten(Tail(ls))

Blocks ==
    { Flatten(ls) \o e :
        ls \in UNION { [1..k -> HeaderLines] : k \in 0..MaxLines }, e \in EmptyLines }

Body == <<"h", "i">>

\* Everything the peer sends if it does not close early.
Stream == block \o Body

\* bufio.Reader's buffer size and the capacities of the target ByteBuffer.
ReaderSize == 56
SmallCap == 5
LargeCap == 64
Capacities == {SmallCap, LargeCap}

\* The sizes of the reads the connection may answer a fill with.
ChunkSize == 7
ReadSizes(avail) == {ChunkSize, avail} \cap 1..avail

ReadErrors == {errEOF, errReset}

Min(a, b) == IF a < b THEN a ELSE b

----------------------------------------------------------------------------
(* ParseHeaderFields, one action per iteration of its loop. Each iteration *)
(* is a tryRead: Peek(n) (at most one fill of the reader that brings data  *)
(* or an error), Peek(Buffered()), readHeaders and, on success, Discard.   *)

\* Bytes of the stream not yet read from the connection.
Unread == Len(Stream) - (discarded + Len(win))

\* What ParseHeaderFields and tryRead do with the result r of readHeaders:
\* Discard on success, another iteration on need-more, the wrapped error
\* otherwise (header.go:62-69, 93-106).
Parsed(r) ==
    /\ header' = r.h
    /\ IF r.err = errNil
       THEN /\ win' = Slice(r.buf, r.n, Len(r.buf))
            /\ discarded' = discarded + r.n
            /\ buffer' = r.B
            /\ result' = errNil
            /\ pc' = "done"
            /\ UNCHANGED <<n, retried>>
       ELSE IF r.err = errNeedMore
       THEN /\ win' = r.buf
            /\ buffer' = r.B
            /\ n' = Len(r.buf) + 1
            /\ retried' = TRUE
            /\ UNCHANGED <<discarded, result, pc>>
       ELSE /\ win' = r.buf
            /\ buffer' = <<>>
            /\ result' = errWrapper(r.err)
            /\ pc' = "done"
            /\ UNCHANGED <<discarded, n, retried>>

\* tryRead once Peek(n) has left w in the window, and what ParseHeaderFields
\* does with its result; peekErr is the error of the fill, if any.
Iteration(w, peekErr) ==
    IF Len(w) = 0
    THEN /\ result' = (IF n = 1 \/ peekErr = errEOF
                       THEN errWrapper(errEOF) ELSE errWrapper(peekErr))
         /\ buffer' = <<>>
         /\ pc' = "done"
         /\ UNCHANGED <<win, discarded, n, header, retried>>
    ELSE Parsed(readHeaders(w, header, buffer, cap))

\* Peek(n) finds n bytes buffered already: no fill.
TryReadBuffered ==
    /\ pc = "parse"
    /\ Len(win) >= n
    /\ Iteration(win, errNil)
    /\ UNCHANGED <<block, closed, cap, svars, bvars>>

\* Peek(n) fills the reader and the connection delivers k more bytes.
TryReadData ==
    /\ pc = "parse"
    /\ Len(win) < n
    /\ Len(win) < ReaderSize
    /\ ~closed
    /\ \E k \in ReadSizes(Min(Unread, ReaderSize - Len(win))) :
          Iteration(win \o Slice(Stream, discarded + Len(win), discarded + Len(win) + k), errNil)
    /\ UNCHANGED <<block, closed, cap, svars, bvars>>

\* Peek(n) fills the reader and the connection returns an error: the peer
\* closed or reset it.
TryReadError(e) ==
    /\ pc = "parse"
    /\ Len(win) < n
    /\ Len(win) < ReaderSize
    /\ closed' = TRUE
    /\ Iteration(win, e)
    /\ UNCHANGED <<block, cap, svars, bvars>>

\* Peek(n) with the reader's buffer full: ErrBufferFull and the whole window.
TryReadFull ==
    /\ pc = "parse"
    /\ Len(win) < n
    /\ Len(win) >= ReaderSize
    /\ Iteration(win, errNil)
    /\ UNCHANGED <<block, closed, cap, svars, bvars>>

\* ParseHeaderFields is called with a Header just Reset, an empty target
\* buffer, and a reader that may hold bytes read along with the start line.
Init ==
    /\ block \in Blocks
    /\ cap \in Capacities
    /\ \E pre \in {0, Min(Len(Stream), ReaderSize)} : win = Slice(Stream, 0, pre)
    /\ discarded = 0
    /\ closed = FALSE
    /\ n = 1
    /\ pc = "parse"
    /\ result = errNil
    /\ header = Reset([isConnectionClose |-> TRUE, contentLength |-> -2])
    /\ buffer = <<>>
    /\ retried = FALSE
    /\ sess = [s \in Sessions |-> NoSession]
    /\ tokens = PoolSize
    /\ counters = NoUsage
    /\ handler = [URLProxy |-> TRUE]
    /\ NoWrites

Next ==
    \/ TryReadBuffered
    \/ TryReadData
    \/ \E e \in ReadErrors : TryReadError(e)
    \/ TryReadFull

Spec == Init /\ [][Next]_vars

----------------------------------------------------------------------------
(* Vocabulary of the properties: the lines of a byte sequence, and what a  *)
(* header block says, read off the block itself.                           *)

RECURSIVE SplitLines(_)
SplitLines(s) ==
    IF s = <<>> THEN <<>>
    ELSE IF \E i \in 1..Len(s) : s[i] = LF
    THEN LET e == CHOOSE i \in 1..Len(s) : s[i] = LF /\ \A j \in 1..(i - 1) : s[j] # LF
         IN  <<SubSeq(s, 1, e)>> \o SplitLines(SubSeq(s, e + 1, Len(s)))
    ELSE <<s>>

BlockLines == SplitLines(block)

Range(f) == {f[i] : i \in DOMAIN f}

StartsWith(line, name) ==
    Len(line) >= Len(name) /\ \A i \in 1..Len(name) : line[i] = name[i]

HopByHopNames ==
    {connectionHeader, AcceptEncoding, ProxyConnection, ProxyAuthenticate, ProxyAuthorization}

IsHopByHop(line) == \E name \in HopByHopNames : StartsWith(line, name)

SameLetter(a, b) == a = b \/ \E i \in 1..26 : {a, b} = {Upper[i], Lower[i]}

\* tok occurs in line in some letter case
ContainsAnyCase(line, tok) ==
    \E i \in 0..(Len(line) - Len(tok)) : \A j \in 1..Len(tok) : SameLetter(line[i + j], tok[j])

Succeeded == pc = "done" /\ result = errNil

\* The value each Content-Length line of the vocabulary declares.
Declared(line) ==
    CASE line = ContentLength5 -> 5
      [] line = ContentLength12 -> 12
      [] OTHER -> 0

\* The indexes of the block's Content-Length lines that declare a length > 0.
PositiveLengths ==
    {i \in DOMAIN BlockLines :
        StartsWith(BlockLines[i], contentLengthHeader) /\ Declared(BlockLines[i]) > 0}

HasTransferEncoding == \E l \in Range(BlockLines) : StartsWith(l, transferEncoding)

\* C1: after a successful parse no line of the target buffer begins with
\* Connection, Accept-Encoding, Proxy-Connection, Proxy-Authenticate or
\* Proxy-Authorization.
C1_NoHopByHopLineEmitted ==
    Succeeded => \A l \in Range(SplitLines(buffer)) : ~IsHopByHop(l)

C1_Witness ==
    /\ Succeeded
    /\ \E l \in Range(BlockLines) : StartsWith(l, connectionHeader)
    /\ \E l \in Range(BlockLines) : StartsWith(l, ProxyAuthorization)
    /\ buffer # <<>>

\* C2: a block with a Transfer-Encoding: chunked line leaves contentLength at -1
\* after a successful parse, whatever other framing lines come before or after.
C2_ChunkedAlwaysWins ==
    (Succeeded /\ \E l \in Range(BlockLines) :
                     StartsWith(l, transferEncoding) /\ Contains(l, chunkedToken))
        => header.contentLength = -1 /\ IsBodyChunked(header)

\* C3: with no Transfer-Encoding line, a successful parse leaves contentLength at
\* the value of the last Content-Length line that declares a length > 0, and
\* at 0 (the Reset value) when there is none; Content-Length: 0 changes nothing.
C3_LastPositiveContentLength ==
    (Succeeded /\ ~HasTransferEncoding) =>
        LET want == IF PositiveLengths = {} THEN 0
                    ELSE Declared(BlockLines[CHOOSE i \in PositiveLengths :
                                                 \A j \in PositiveLengths : j <= i])
        IN  header.contentLength = want /\ ContentLength(header) = want

C3_Witness ==
    /\ Succeeded
    /\ BlockLines[1] = ContentLength5
    /\ BlockLines[2] = ContentLength0
    /\ header.contentLength = 5

\* C4: after a successful parse isConnectionClose is set exactly when some line
\* of the block begins with Connection and contains close in some letter case,
\* wherever the line stands and however many retries the parse took.
C4_ConnectionCloseIff ==
    Succeeded =>
        (IsConnectionClose(header) <=>
            \E l \in Range(BlockLines) :
                StartsWith(l, connectionHeader) /\ ContainsAnyCase(l, closeToken))

C4_Witness ==
    /\ Succeeded
    /\ retried
    /\ Len(BlockLines) = 3
    /\ StartsWith(BlockLines[2], connectionHeader)
    /\ ~Contains(BlockLines[2], closeToken)
    /\ IsConnectionClose(header)

\* C5: a successful parse has discarded exactly the header block, its empty line
\* included and nothing after it; until then, and on every failure, nothing has
\* been discarded.
C5_DiscardsBlockOrNothing ==
    /\ Succeeded => discarded = Len(block) /\ win = SubSeq(Body, 1, Len(win))
    /\ ~Succeeded => discarded = 0

C5_Witness ==
    /\ Succeeded
    /\ Len(BlockLines) = 3
    /\ win = Body
    /\ discarded = Len(block)

\* What one pass over the whole block is to emit: every line that is not
\* hop-by-hop, the empty line included.
RECURSIVE Flat(_)
Flat(ls) == IF ls = <<>> THEN <<>> ELSE Head(ls) \o Flat(Tail(ls))

ToEmit == Flat(SelectSeq(BlockLines, LAMBDA l : ~IsHopByHop(l)))

\* C6: when the lines to emit exceed the capacity of the target buffer, a
\* parse that was not cut short by the peer returns the short-buffer error, and
\* a parse that returns it leaves the target buffer empty.
C6_ShortBufferResets ==
    /\ (pc = "done" /\ result # errWrapper(errEOF) /\ block \notin EmptyLines /\ Len(ToEmit) > cap)
           => result = errWrapper(errShortBuffer)
    /\ (pc = "done" /\ result = errWrapper(errShortBuffer))
           => buffer = <<>>

C6_Witness ==
    /\ pc = "done"
    /\ result = errWrapper(errShortBuffer)
    /\ cap = SmallCap
    /\ Len(ToEmit) > cap
    /\ retried
    /\ buffer = <<>>

\* C7: once the connection has answered a fill with an error because the peer
\* closed before the block was complete, ParseHeaderFields has returned the
\* unexpected-eof error, whether or not bytes were buffered before.
C7_EofOnEarlyClose ==
    closed => pc = "done" /\ result = errWrapper(errEOF)

\* C8: for a block with no hop-by-hop line, the block of the empty line alone
\* included, the target buffer after a successful parse equals the block.
C8_RoundTrip ==
    (Succeeded /\ \A l \in Range(BlockLines) : ~IsHopByHop(l)) => buffer = block

----------------------------------------------------------------------------
(* The proxy handler: Handler.do, Handler.tunnelConnect and                *)
(* Handler.decryptConnect, and the older handler.tunnelConnect. One action *)
(* per step between two calls that block or that the environment answers   *)
(* (a dial, a write to the client, a handshake, a token of the pool).       *)

httpTunnelMadeOk == "HTTP/1.1 200 OK\r\n\r\n"
httpTunnelMadeError == "HTTP/1.1 501 Bad Gateway\r\n\r\n"

ErrSessionUnavailable == "session unavailable"
errDial == "error occurred when dialing to host"
errClientHandshake == "error occurred when handshaking with client"
errTunnelRequest == "error occurred when tunneling client request to client"
errTunnelResponse == "error occurred when tunneling client response to client"
errSignFakeCert == "fail to sign fake certificate for client"
errProxyHandshake == "proxy fails to handshake with client"
errTLSHandshake == "fake tls server fails to handshake with client"
errNoServerName == "client didn't provide a target server name"
errReadRequest == "fail to read fake tls server request header"
errResponseWrite == "resp.WriteTo failed"
errClientDo == "client.Do failed"
errHijackDo == "hijackClient.Do failed"

Hosts ==
    { NoHost,
      [domain |-> "example.test", port |-> ""],
      [domain |-> "example.test", port |-> "443"] }

ServerNames == {"", "example.test"}

\* HostInfo.ParseHostWithPort and HostInfo.HostWithPort: the port defaults to
\* 80, and a host that does not parse leaves hostWithPort empty.
ParseHostWithPort(h) ==
    IF h.domain = "" THEN NoHost
    ELSE [domain |-> h.domain, port |-> IF h.port = "" THEN "80" ELSE h.port]

HostWithPort(hostInfo) ==
    IF hostInfo.domain = "" THEN "" ELSE hostInfo.domain \o ":" \o hostInfo.port

\* net.SplitHostPort fails on a host without a port.
SplitHostPortFails(h) == h.port = ""

\* The token pool of the upstream proxy, a counting semaphore: AcquireToken
\* blocks while no token is left.
CanAcquireToken(t) == t > 0
AcquireToken(t) == t - 1
PushBackToken(t) == t + 1

httpTunnelMadeOkSize == 19
httpTunnelMadeErrorSize == 28

\* The most bytes one forwarder, one request or one exchange moves.
MaxTraffic == 1
Traffic == {0, MaxTraffic}

errNilDereference == "invalid memory address or nil pointer dereference"

Send(r, reply) == [r EXCEPT !.replies = Append(@, reply)]

Call(r, f) == [r EXCEPT !.log = Append(@, f)]

Acquire(r, k) == [r EXCEPT !.acquired[k] = @ + 1]

Release(r, k) == [r EXCEPT !.released[k] = @ + 1]

Defer(r, d) == [r EXCEPT !.defers = Append(@, d)]

Read(r, k) == [r EXCEPT !.io.read = @ + k]

Written(r, k) == [r EXCEPT !.io.written = @ + k]

RECURSIVE AddAll(_, _)
AddAll(u, adds) ==
    IF adds = <<>> THEN u
    ELSE AddAll([u EXCEPT ![Head(adds)[1]] = @ + Head(adds)[2]], Tail(adds))

\* go func() { ... }(): a goroutine that makes the additions adds, in order.
Go(r, adds) == [r EXCEPT !.gos = Append(@, adds), !.delta = AddAll(@, adds)]

\* tunnelConnect, lines 237-247: the additions of the deferred goroutine
TunnelUsage(r) ==
    <<<<"usage.in", r.sizes.proxyIncomingSize>>, <<"usage.out", r.sizes.proxyOutgoingSize>>>>
    \o (IF r.superProxy
        THEN <<<<"super.out", r.sizes.superProxyOutgoingSize>>,
               <<"super.in", r.sizes.superProxyIncomingSize>>>>
        ELSE <<>>)

\* One deferred call: the accounting of tunnelConnect, PushBackToken, or the
\* release of a pooled object.
Deferred(r, d) ==
    CASE d = "usage" -> Go(r, TunnelUsage(r))
      [] d = "token" -> Release([r EXCEPT !.held = FALSE], "token")
      [] OTHER -> Release(r, d)

RECURSIVE RunDefers(_)
RunDefers(r) ==
    IF r.defers = <<>> THEN r
    ELSE LET d == r.defers[Len(r.defers)]
             rest == [r EXCEPT !.defers = SubSeq(@, 1, Len(@) - 1)]
         IN  RunDefers(Deferred(rest, d))

\* A handler leaves (returns, or panics: to = "panic") with e: its deferred
\* calls run, last first, and its locals are gone.
Exit(s, r, to, e) ==
    /\ sess' = [sess EXCEPT ![s] =
                   [RunDefers(r) EXCEPT !.pc = to, !.err = e, !.sizes = NoSizes,
                                        !.up = NoForward, !.down = NoForward]]
    /\ tokens' = IF \E i \in 1..Len(r.defers) : r.defers[i] = "token"
                 THEN PushBackToken(tokens) ELSE tokens
    /\ UNCHANGED <<counters, handler>>

Return(s, r, e) == Exit(s, r, "done", e)

Panic(s, r) == Exit(s, r, "panic", errNilDereference)

Goto(s, r, to) ==
    /\ sess' = [sess EXCEPT ![s] = [r EXCEPT !.pc = to]]
    /\ UNCHANGED <<tokens, counters, handler>>

\* handleHTTPSConns: a CONNECT for hostWithPort, decrypted or tunnelled as
\* ShouldDecryptHost answers.
handleHTTPSConns(s, hostWithPort, decrypt) ==
    /\ sess[s].pc = "idle"
    /\ Goto(s, [sess[s] EXCEPT !.host = hostWithPort,
                              !.fn = IF decrypt THEN "decryptConnect" ELSE "tunnelConnect"],
            IF decrypt THEN "decryptConnect" ELSE "tunnelConnect")
    /\ UNCHANGED <<pvars, bvars>>

\* handleHTTPConns: a plain request whose parsed host is hostWithPort.
handleHTTPConns(s, hostWithPort) ==
    /\ sess[s].pc = "idle"
    /\ Goto(s, [sess[s] EXCEPT !.host = ParseHostWithPort(hostWithPort), !.fn = "do"], "do")
    /\ UNCHANGED <<pvars, bvars>>

\* tunnelConnect, lines 200-207: parse the host, ask URLProxy, check the host.
\* Calling the nil func value of an unset URLProxy panics.
TunnelRoute(s, proxy) ==
    /\ sess[s].pc = "tunnelConnect"
    /\ LET hostInfo == ParseHostWithPort(sess[s].host)
           r == [sess[s] EXCEPT !.host = hostInfo]
           routed == Call([r EXCEPT !.superProxy = proxy], "URLProxy")
       IN  IF ~handler.URLProxy
           THEN ~proxy /\ Panic(s, r)
           ELSE IF HostWithPort(hostInfo) = ""
           THEN Return(s, routed, ErrSessionUnavailable)
           ELSE Goto(s, routed, IF proxy THEN "tunnel.acquire" ELSE "tunnel.dial")
    /\ UNCHANGED <<pvars, bvars>>

\* tunnelConnect without lines 218-222: the dial goes ahead with no token.
TunnelAcquire_Mutant(s) ==
    /\ sess[s].pc = "tunnel.acquire"
    /\ Goto(s, sess[s], "tunnel.dial")
    /\ UNCHANGED <<pvars, bvars>>

\* tunnelConnect, lines 209-222: look the host up, take a token of the
\* upstream proxy and defer giving it back
TunnelAcquire(s) ==
    /\ sess[s].pc = "tunnel.acquire"
    /\ CanAcquireToken(tokens)
    /\ tokens' = AcquireToken(tokens)
    /\ sess' = [sess EXCEPT ![s] =
                   [Defer(Acquire(Call(Call(@, "lookupIP"), "AcquireToken"), "token"), "token")
                        EXCEPT !.pc = "tunnel.dial", !.held = TRUE]]
    /\ UNCHANGED <<counters, handler>>
    /\ UNCHANGED <<pvars, bvars>>

\* tunnelConnect without line 251: a failed dial ends the session with no reply.
TunnelDial_Mutant(s, ok) ==
    /\ sess[s].pc = "tunnel.dial"
    /\ IF ok
       THEN Goto(s, [sess[s] EXCEPT !.dialed = TRUE], "tunnel.handshake")
       ELSE Return(s, sess[s], errDial)
    /\ UNCHANGED <<pvars, bvars>>

\* tunnelConnect without line 252: the 501 reply is sent and not counted.
TunnelDial_Uncounted(s, ok) ==
    /\ sess[s].pc = "tunnel.dial"
    /\ LET r == Defer(Call(sess[s], IF sess[s].superProxy THEN "MakeTunnel" ELSE "Dial"),
                      "usage")
       IN  IF ok
           THEN Goto(s, [r EXCEPT !.dialed = TRUE], "tunnel.handshake")
           ELSE Return(s, Written(Send(r, httpTunnelMadeError), httpTunnelMadeErrorSize),
                       errDial)
    /\ UNCHANGED <<pvars, bvars>>

\* tunnelConnect, lines 224-254: MakeTunnel or Dial, the accounting deferred;
\* on an error the 501 reply, counted as outgoing
TunnelDial(s, ok) ==
    /\ sess[s].pc = "tunnel.dial"
    /\ LET r == Defer(Call(sess[s], IF sess[s].superProxy THEN "MakeTunnel" ELSE "Dial"),
                      "usage")
       IN  IF ok
           THEN Goto(s, [r EXCEPT !.dialed = TRUE], "tunnel.handshake")
           ELSE Return(s, [Written(Send(r, httpTunnelMadeError), httpTunnelMadeErrorSize)
                               EXCEPT !.sizes.proxyOutgoingSize = @ + httpTunnelMadeErrorSize],
                       errDial)
    /\ UNCHANGED <<pvars, bvars>>

\* tunnelConnect, lines 257-273: the 200 reply, counted as outgoing once
\* written, then the two forwarders are started
TunnelHandshake(s, written) ==
    /\ sess[s].pc = "tunnel.handshake"
    /\ IF written
       THEN Goto(s, [Call(Written(Send(sess[s], httpTunnelMadeOk), httpTunnelMadeOkSize),
                          "Forward")
                         EXCEPT !.sizes.proxyOutgoingSize = @ + httpTunnelMadeOkSize,
                                !.fwd = {"up", "down"}],
                 "tunnel.forward")
       ELSE Return(s, Send(sess[s], httpTunnelMadeOk), errClientHandshake)
    /\ UNCHANGED <<pvars, bvars>>

\* tunnelConnect, lines 266-273: one forwarder ends, having moved k bytes:
\* up is transport.Forward(tunnelConn, conn), down the other direction.
ForwardDone(s, d, k, failed) ==
    /\ sess[s].fn = "tunnelConnect"
    /\ d \in sess[s].fwd
    /\ LET r == [sess[s] EXCEPT !.fwd = @ \ {d}]
           io == IF d = "up" THEN Read(r, k) ELSE Written(r, k)
       IN  sess' = [sess EXCEPT ![s] =
                       IF r.pc # "tunnel.forward" THEN io
                       ELSE IF d = "up" THEN [io EXCEPT !.up = [n |-> k, err |-> failed]]
                       ELSE [io EXCEPT !.down = [n |-> k, err |-> failed]]]
    /\ UNCHANGED <<tokens, counters, handler>>
    /\ UNCHANGED <<pvars, bvars>>

\* tunnelConnect with wg.Add(1) at line 267: Wait returns after one forwarder.
TunnelForward_Mutant(s) ==
    /\ sess[s].pc = "tunnel.forward"
    /\ Cardinality(sess[s].fwd) <= 1
    /\ Return(s, sess[s], errNil)
    /\ UNCHANGED <<pvars, bvars>>

\* tunnelConnect, lines 274-288: both forwarders have ended (wg.Wait); the
\* forwarded sizes are added up and the first error, if any, is returned
TunnelForward(s) ==
    /\ sess[s].pc = "tunnel.forward"
    /\ sess[s].fwd = {}
    /\ LET r == sess[s]
           z == r.sizes
           sizes == [proxyIncomingSize |-> z.proxyIncomingSize + r.up.n,
                     proxyOutgoingSize |-> z.proxyOutgoingSize + r.down.n,
                     superProxyIncomingSize |-> z.superProxyIncomingSize + r.down.n,
                     superProxyOutgoingSize |-> z.superProxyOutgoingSize + r.up.n]
       IN  Return(s, [r EXCEPT !.sizes = sizes],
                  IF r.up.err THEN errTunnelRequest
                  ELSE IF r.down.err THEN errTunnelResponse ELSE errNil)
    /\ UNCHANGED <<pvars, bvars>>

\* A counter that stores what it is given instead of adding it.
AddSize_Mutant(u, c, k) == [u EXCEPT ![c] = k]

\* ProxyUsage.AddIncomingSize, ProxyUsage.AddOutgoingSize: an atomic addition
AddSize(u, c, k) == [u EXCEPT ![c] = @ + k]

\* An accounting goroutine of session s makes its next addition.
UsageAdd(s, g) ==
    /\ g \in 1..Len(sess[s].gos)
    /\ LET adds == sess[s].gos[g]
           add == Head(adds)
           left == IF Len(adds) = 1
                   THEN SubSeq(sess[s].gos, 1, g - 1) \o SubSeq(sess[s].gos, g + 1, Len(sess[s].gos))
                   ELSE [sess[s].gos EXCEPT ![g] = Tail(adds)]
       IN  /\ counters' = AddSize(counters, add[1], add[2])
           /\ sess' = [sess EXCEPT ![s] = [@ EXCEPT !.gos = left,
                                                    !.applied[add[1]] = @ + add[2]]]
    /\ UNCHANGED <<tokens, handler>>
    /\ UNCHANGED <<pvars, bvars>>

\* decryptConnect, lines 298-307: the certificate for the CONNECT host; on
\* an error the 501 reply, counted as outgoing by a goroutine
DecryptSign(s, signed) ==
    /\ sess[s].pc = "decryptConnect"
    /\ LET r == Call(sess[s], "signFakeCert")
       IN  IF signed /\ ~SplitHostPortFails(sess[s].host)
           THEN Goto(s, r, "decrypt.handshake")
           ELSE Return(s, Go(Written(Send(r, httpTunnelMadeError), httpTunnelMadeErrorSize),
                             <<<<"usage.out", httpTunnelMadeErrorSize>>>>),
                       errSignFakeCert)
    /\ UNCHANGED <<pvars, bvars>>

\* decryptConnect with the check of lines 337-339 left out: the handshake's
\* own result decides.
DecryptHandshake_Mutant(s, written, hello, name, signed) ==
    /\ sess[s].pc = "decrypt.handshake"
    /\ LET targetServerName == IF written /\ hello THEN name ELSE ""
           handShakeErr == IF ~written THEN errProxyHandshake
                           ELSE IF ~hello \/ (name # "" /\ ~signed) THEN errTLSHandshake
                           ELSE errNil
           r == [Call(Send(sess[s], httpTunnelMadeOk), "sendHTTPSProxyStatusOK")
                     EXCEPT !.sni = targetServerName, !.handShakeErr = handShakeErr]
       IN  IF handShakeErr # errNil
           THEN Return(s, r, handShakeErr)
           ELSE Goto(s, Call(r, "Handshake"), "decrypt.read")
    /\ UNCHANGED <<pvars, bvars>>

\* decryptConnect, lines 309-343: the 200 reply, counted as outgoing by a
\* goroutine once written, then the TLS handshake, in which GetCertificate
\* (called for a hello that names a server) records the name and signs for
\* it, then the check of the name; hello is whether the client hello arrived,
\* name its server name.
DecryptHandshake(s, written, hello, name, signed) ==
    /\ sess[s].pc = "decrypt.handshake"
    /\ LET targetServerName == IF written /\ hello THEN name ELSE ""
           handShakeErr == IF ~written THEN errProxyHandshake
                           ELSE IF ~hello \/ (name # "" /\ ~signed) THEN errTLSHandshake
                           ELSE errNil
           err == IF targetServerName = "" THEN errNoServerName ELSE handShakeErr
           sent == Call(Send(sess[s], httpTunnelMadeOk), "sendHTTPSProxyStatusOK")
           shaken == IF ~written THEN sent
                     ELSE Call(Go(Written(sent, httpTunnelMadeOkSize),
                                  <<<<"usage.out", httpTunnelMadeOkSize>>>>),
                               "Handshake")
           minted == IF targetServerName # "" THEN Call(shaken, "GetCertificate") ELSE shaken
           r == [minted EXCEPT !.sni = targetServerName, !.handShakeErr = handShakeErr]
       IN  IF err # errNil
           THEN Return(s, r, err)
           ELSE Goto(s, r, "decrypt.read")
    /\ UNCHANGED <<pvars, bvars>>

\* decryptConnect, lines 345-367: a pooled reader and request, the decrypted
\* request read (k bytes), counted as incoming by a goroutine, then h.do
DecryptRead(s, ok, k) ==
    /\ sess[s].pc = "decrypt.read"
    /\ LET r == Read(Call(Defer(Acquire(Defer(Acquire(sess[s], "reader"), "reader"), "req"),
                                "req"),
                          "ReadFrom"), k)
       IN  IF ok
           THEN Goto(s, [Go(r, <<<<"usage.in", k>>>>) EXCEPT !.host = ParseHostWithPort(@)],
                     "do")
           ELSE Return(s, r, errReadRequest)
    /\ UNCHANGED <<pvars, bvars>>

\* do without line 108: the response is never given back to its pool.
DoStart_Mutant(s, ok) ==
    /\ sess[s].pc = "do"
    /\ LET r == Acquire(Defer(Acquire(sess[s], "writer"), "writer"), "resp")
       IN  IF ok THEN Goto(s, r, "do.hijack") ELSE Return(s, r, errResponseWrite)
    /\ UNCHANGED <<pvars, bvars>>

\* do, lines 104-111: a pooled writer and response, the response bound to
\* the client writer
DoStart(s, ok) ==
    /\ sess[s].pc = "do"
    /\ LET r == Defer(Acquire(Defer(Acquire(sess[s], "writer"), "writer"), "resp"), "resp")
       IN  IF ok THEN Goto(s, r, "do.hijack") ELSE Return(s, r, errResponseWrite)
    /\ UNCHANGED <<pvars, bvars>>

\* do with the return of line 128 left out: the request goes on to the origin.
DoHijack_Mutant(s, hijacked, k, m, e) ==
    /\ sess[s].pc = "do.hijack"
    /\ LET r == Call(Call(Defer(Acquire(sess[s], "hijacker"), "hijacker"),
                          "HijackerPool.Get"), "HijackResponse")
       IN  IF hijacked
           THEN Goto(s, Go(Written(Read(Call(r, "hijackClient.Do"), k), m),
                           <<<<"client.in", k>>, <<"client.out", m>>>>), "do.route")
           ELSE k = 0 /\ m = 0 /\ e = errNil /\ Goto(s, r, "do.route")
    /\ UNCHANGED <<pvars, bvars>>

\* do, lines 113-129: a pooled hijacker; if it has a response of its own,
\* hijackClient.Do answers with it (k bytes of request read, m of response
\* written), a goroutine counts them and do returns
DoHijack(s, hijacked, k, m, e) ==
    /\ sess[s].pc = "do.hijack"
    /\ LET r == Call(Call(Defer(Acquire(sess[s], "hijacker"), "hijacker"),
                          "HijackerPool.Get"), "HijackResponse")
       IN  IF hijacked
           THEN Return(s, Go(Written(Read(Call(r, "hijackClient.Do"), k), m),
                             <<<<"client.in", k>>, <<"client.out", m>>>>), e)
           ELSE k = 0 /\ m = 0 /\ e = errNil /\ Goto(s, r, "do.route")
    /\ UNCHANGED <<pvars, bvars>>

\* do, lines 131-137: ask URLProxy, check the host. Calling the nil func
\* value of an unset URLProxy panics.
DoRoute(s, proxy) ==
    /\ sess[s].pc = "do.route"
    /\ LET r == Call([sess[s] EXCEPT !.superProxy = proxy], "URLProxy")
       IN  IF ~handler.URLProxy
           THEN ~proxy /\ Panic(s, sess[s])
           ELSE IF HostWithPort(sess[s].host) = ""
           THEN Return(s, r, ErrSessionUnavailable)
           ELSE Goto(s, r, IF proxy THEN "do.acquire" ELSE "do.exchange")
    /\ UNCHANGED <<pvars, bvars>>

\* do, lines 138-149: look the host up, take a token of the upstream proxy
\* and defer giving it back
DoAcquire(s) ==
    /\ sess[s].pc = "do.acquire"
    /\ CanAcquireToken(tokens)
    /\ tokens' = AcquireToken(tokens)
    /\ sess' = [sess EXCEPT ![s] =
                   [Defer(Acquire(Call(Call(@, "lookupIP"), "AcquireToken"), "token"), "token")
                        EXCEPT !.pc = "do.exchange", !.held = TRUE]]
    /\ UNCHANGED <<counters, handler>>
    /\ UNCHANGED <<pvars, bvars>>

\* do, lines 151-163: client.Do (k bytes of request read and written on, m
\* of response written); a goroutine counts them
DoExchange(s, k, m, e) ==
    /\ sess[s].pc = "do.exchange"
    /\ LET r == Written(Read(Call(sess[s], "client.Do"), k), m)
           adds == <<<<"client.in", k>>, <<"client.out", m>>>>
                   \o (IF r.superProxy THEN <<<<"super.in", m>>, <<"super.out", k>>>> ELSE <<>>)
       IN  Return(s, Go(r, adds), e)
    /\ UNCHANGED <<pvars, bvars>>

\* The older handler.tunnelConnect, lines 429-466: dial, reply, forward.
OldTunnelStart(s, hostWithPort) ==
    /\ sess[s].pc = "idle"
    /\ Goto(s, [sess[s] EXCEPT !.host = hostWithPort, !.fn = "handler.tunnelConnect"],
            "old.dial")
    /\ UNCHANGED <<pvars, bvars>>

OldTunnelDial(s, ok) ==
    /\ sess[s].pc = "old.dial"
    /\ IF ok /\ sess[s].host # NoHost
       THEN Goto(s, [sess[s] EXCEPT !.dialed = TRUE], "old.handshake")
       ELSE Return(s, Send(sess[s], httpTunnelMadeError), errDial)
    /\ UNCHANGED <<pvars, bvars>>

OldTunnelHandshake(s, written) ==
    /\ sess[s].pc = "old.handshake"
    /\ IF written
       THEN Goto(s, [Call(Send(sess[s], httpTunnelMadeOk), "Forward")
                         EXCEPT !.fwd = {"up", "down"}], "old.forward")
       ELSE Return(s, Send(sess[s], httpTunnelMadeOk), errClientHandshake)
    /\ UNCHANGED <<pvars, bvars>>

\* handler.tunnelConnect, lines 451-458: one forwarder ends
OldForwardDone(s, d, failed) ==
    /\ sess[s].fn = "handler.tunnelConnect"
    /\ d \in sess[s].fwd
    /\ sess' = [sess EXCEPT ![s] =
                   IF d = "up" THEN [@ EXCEPT !.fwd = @ \ {d}, !.up = [n |-> 0, err |-> failed]]
                   ELSE [@ EXCEPT !.fwd = @ \ {d}, !.down = [n |-> 0, err |-> failed]]]
    /\ UNCHANGED <<tokens, counters, handler>>
    /\ UNCHANGED <<pvars, bvars>>

\* handler.tunnelConnect, lines 459-466: wg.Wait, then the first error
OldTunnelForward(s) ==
    /\ sess[s].pc = "old.forward"
    /\ sess[s].fwd = {}
    /\ Return(s, sess[s],
              IF sess[s].up.err THEN errTunnelRequest
              ELSE IF sess[s].down.err THEN errTunnelResponse ELSE errNil)
    /\ UNCHANGED <<pvars, bvars>>

SessionInit ==
    /\ block = <<LF>>
    /\ win = <<>>
    /\ discarded = 0
    /\ closed = FALSE
    /\ n = 1
    /\ pc = "idle"
    /\ result = errNil
    /\ header = Reset([isConnectionClose |-> TRUE, contentLength |-> -2])
    /\ buffer = <<>>
    /\ cap = LargeCap
    /\ retried = FALSE
    /\ sess = [s \in Sessions |-> NoSession]
    /\ tokens = PoolSize
    /\ counters = NoUsage
    /\ handler = [URLProxy |-> TRUE]
    /\ NoWrites

SessionNext ==
    \E s \in Sessions :
        \/ \E h \in Hosts, d \in BOOLEAN : handleHTTPSConns(s, h, d)
        \/ \E h \in Hosts : handleHTTPConns(s, h)
        \/ \E proxy \in BOOLEAN : TunnelRoute(s, proxy)
        \/ TunnelAcquire(s)
        \/ \E ok \in BOOLEAN : TunnelDial(s, ok)
        \/ \E written \in BOOLEAN : TunnelHandshake(s, written)
        \/ \E d \in {"up", "down"}, k \in Traffic, failed \in BOOLEAN :
               ForwardDone(s, d, k, failed)
        \/ TunnelForward(s)
        \/ \E g \in 1..Len(sess[s].gos) : UsageAdd(s, g)
        \/ \E signed \in BOOLEAN : DecryptSign(s, signed)
        \/ \E written, hello, signed \in BOOLEAN, name \in ServerNames :
               DecryptHandshake(s, written, hello, name, signed)
        \/ \E ok \in BOOLEAN, k \in Traffic : DecryptRead(s, ok, k)
        \/ \E ok \in BOOLEAN : DoStart(s, ok)
        \/ \E hijacked \in BOOLEAN, k, m \in Traffic, e \in {errNil, errHijackDo} :
               DoHijack(s, hijacked, k, m, e)
        \/ \E proxy \in BOOLEAN : DoRoute(s, proxy)
        \/ DoAcquire(s)
        \/ \E k, m \in Traffic, e \in {errNil, errClientDo} : DoExchange(s, k, m, e)
        \/ \E h \in Hosts : OldTunnelStart(s, h)
        \/ \E ok \in BOOLEAN : OldTunnelDial(s, ok)
        \/ \E written \in BOOLEAN : OldTunnelHandshake(s, written)
        \/ \E d \in {"up", "down"}, failed \in BOOLEAN : OldForwardDone(s, d, failed)
        \/ OldTunnelForward(s)

SessionSpec == SessionInit /\ [][SessionNext]_vars

\* One client connects, to a Handler whose URLProxy is set or left unset.
HandlerInit ==
    /\ block = <<LF>>
    /\ win = <<>>
    /\ discarded = 0
    /\ closed = FALSE
    /\ n = 1
    /\ pc = "idle"
    /\ result = errNil
    /\ header = Reset([isConnectionClose |-> TRUE, contentLength |-> -2])
    /\ buffer = <<>>
    /\ cap = LargeCap
    /\ retried = FALSE
    /\ sess = [s \in Sessions |-> IF s = 1 THEN NoSession ELSE [NoSession EXCEPT !.pc = "absent"]]
    /\ tokens = PoolSize
    /\ counters = NoUsage
    /\ handler \in {[URLProxy |-> TRUE], [URLProxy |-> FALSE]}
    /\ NoWrites

HandlerSpec == HandlerInit /\ [][SessionNext]_vars

\* Every client's CONNECT or request is for a host the upstream proxy is to
\* serve: the sessions meet at its token pool and at the usage counters.
ProxiedHost == [domain |-> "example.test", port |-> "443"]

ProxyNext ==
    \E s \in Sessions :
        \/ handleHTTPSConns(s, ProxiedHost, FALSE)
        \/ handleHTTPConns(s, ProxiedHost)
        \/ TunnelRoute(s, TRUE)
        \/ TunnelAcquire(s)
        \/ \E ok \in BOOLEAN : TunnelDial(s, ok)
        \/ \E written \in BOOLEAN : TunnelHandshake(s, written)
        \/ \E d \in {"up", "down"}, failed \in BOOLEAN : ForwardDone(s, d, MaxTraffic, failed)
        \/ TunnelForward(s)
        \/ \E g \in 1..Len(sess[s].gos) : UsageAdd(s, g)
        \/ DoStart(s, TRUE)
        \/ DoHijack(s, FALSE, 0, 0, errNil)
        \/ DoRoute(s, TRUE)
        \/ DoAcquire(s)
        \/ \E e \in {errNil, errClientDo} : DoExchange(s, MaxTraffic, MaxTraffic, e)

ProxySpec == SessionInit /\ [][ProxyNext]_vars

----------------------------------------------------------------------------
(* Claims about the handler.                                               *)

ThroughProxy(s) ==
    /\ sess[s].superProxy
    /\ sess[s].pc \in {"tunnel.dial", "tunnel.handshake", "tunnel.forward", "do.exchange"}

InProgress == {s \in Sessions : ThroughProxy(s)}

Holders == {s \in Sessions : sess[s].held}

\* C9: the tunnels and origin exchanges in progress through the upstream
\* proxy, between AcquireToken and PushBackToken in tunnelConnect and in do,
\* never outnumber the tokens of its pool; each of them holds one token, and
\* the tokens held and the tokens left add up to the pool.
C9_TokenPoolBoundsConcurrency ==
    /\ Cardinality(InProgress) <= PoolSize
    /\ InProgress \subseteq Holders
    /\ tokens >= 0
    /\ tokens + Cardinality(Holders) = PoolSize

\* The pool is exhausted by tunnels and exchanges in progress while one more
\* session routed through the same proxy waits in AcquireToken.
C9_Witness ==
    /\ tokens = 0
    /\ Cardinality(InProgress) = PoolSize
    /\ \E s \in Sessions : sess[s].pc \in {"tunnel.acquire", "do.acquire"}

ConnectHandlers == {"tunnelConnect", "decryptConnect", "handler.tunnelConnect"}

RawTunnels == {"tunnelConnect", "handler.tunnelConnect"}

Connects == {s \in Sessions : sess[s].fn \in ConnectHandlers}

Failed(s) == sess[s].pc = "done" /\ sess[s].err # errNil

\* The failures that end a CONNECT before anything was established: no host,
\* a dial or an upstream refusal, a certificate that could not be signed.
EstablishmentFailures == {ErrSessionUnavailable, errDial, errSignFakeCert}

\* tunnelConnect past its dial, decryptConnect past its first certificate
Established(s) ==
    IF sess[s].fn \in RawTunnels
    THEN sess[s].pc \in {"tunnel.forward", "old.forward"}
         \/ (sess[s].pc = "done" /\ sess[s].err \notin EstablishmentFailures)
    ELSE sess[s].pc \in {"decrypt.read", "do", "do.hijack", "do.route", "do.acquire",
                         "do.exchange"}
         \/ (sess[s].pc = "done" /\ sess[s].err \notin EstablishmentFailures)

----------------------------------------------------------------------------
(* WriteWithValidation and the fixed-size ByteBuffer, as the test of the   *)
(* util package uses them: buffers of capacity 5 and 10, a nil writer, and *)
(* writes of the first bytes of "12345678".                                *)

TestCap == 10
MaxWrite == 8
Payloads == {SubSeq(Digits, 2, k + 1) : k \in 0..MaxWrite}

\* bytebufferpool.MakeFixedSizeByteBuffer(c)
MakeBuffer(c) ==
    /\ writer' = MakeFixedSizeByteBuffer
    /\ wcap' = c
    /\ wprev' = writer
    /\ wp' = <<>>
    /\ wn' = 0
    /\ werr' = errNil
    /\ UNCHANGED <<pvars, svars>>

\* n, err := WriteWithValidation(w, p)
WriteValidated(p) ==
    /\ LET r == WriteWithValidation(writer, p, wcap)
       IN  /\ writer' = r.w
           /\ wn' = r.n
           /\ werr' = r.err
    /\ wprev' = writer
    /\ wp' = p
    /\ UNCHANGED wcap
    /\ UNCHANGED <<pvars, svars>>

BufferInit ==
    /\ block = <<LF>>
    /\ win = <<>>
    /\ discarded = 0
    /\ closed = FALSE
    /\ n = 1
    /\ pc = "idle"
    /\ result = errNil
    /\ header = Reset([isConnectionClose |-> TRUE, contentLength |-> -2])
    /\ buffer = <<>>
    /\ cap = LargeCap
    /\ retried = FALSE
    /\ sess = [s \in Sessions |-> [NoSession EXCEPT !.pc = "absent"]]
    /\ tokens = PoolSize
    /\ counters = NoUsage
    /\ handler = [URLProxy |-> TRUE]
    /\ NoWrites

BufferNext ==
    \/ \E c \in {SmallCap, TestCap} : MakeBuffer(c)
    \/ \E p \in Payloads : WriteValidated(p)

BufferSpec == BufferInit /\ [][BufferNext]_vars

\* C18: a write of more bytes than its capacity to a fixed-size ByteBuffer
\* fails with the short-buffer error, and the buffer never holds more than
\* its capacity; a write of no more than the capacity into an empty buffer
\* succeeds; and a write to a nil writer returns 0 and no error.
C18_FixedBufferShortWrite ==
    /\ ~writer.isNil => Len(writer.B) <= wcap
    /\ (~wprev.isNil /\ Len(wp) > wcap) => werr = errShortBuffer
    /\ (~wprev.isNil /\ wprev.B = <<>> /\ wp # <<>> /\ Len(wp) <= wcap)
           => werr = errNil /\ wn = Len(wp) /\ writer.B = wp
    /\ (wprev.isNil /\ wp # <<>>) => wn = 0 /\ werr = errNil /\ writer = NilWriter

\* The write of the test: "12345678" to a buffer of capacity 5.
C18_Witness ==
    /\ ~wprev.isNil
    /\ wcap = SmallCap
    /\ wp = SubSeq(Digits, 2, 9)
    /\ werr = errShortBuffer

----------------------------------------------------------------------------
(* More claims about the handler.                                          *)

Handlers == {"do", "tunnelConnect", "decryptConnect"}

Left(s) == sess[s].pc \in {"done", "panic"}

Calls(s) == Range(sess[s].log)

\* C11: when the dial or MakeTunnel of a raw tunnel fails, the session sends
\* the 501 reply and ends without having started a forwarder, and its
\* accounting adds the length of the 501 reply to the outgoing counter of the
\* proxy usage and 0 to the incoming one.
C11_DialFailureCounts501 ==
    \A s \in Sessions :
        (sess[s].fn = "tunnelConnect" /\ Failed(s) /\ sess[s].err = errDial)
            => /\ sess[s].replies = <<httpTunnelMadeError>>
               /\ "Forward" \notin Calls(s)
               /\ sess[s].fwd = {}
               /\ sess[s].delta["usage.out"] = httpTunnelMadeErrorSize
               /\ sess[s].delta["usage.in"] = 0
               /\ sess[s].gos = <<>> =>
                      /\ sess[s].applied["usage.out"] = httpTunnelMadeErrorSize
                      /\ sess[s].applied["usage.in"] = 0

\* A dial through the upstream proxy failed and the accounting goroutine of
\* the session has made all its additions.
C11_Witness ==
    \E s \in Sessions :
        /\ sess[s].fn = "tunnelConnect" /\ Failed(s) /\ sess[s].err = errDial
        /\ "MakeTunnel" \in Calls(s)
        /\ sess[s].gos = <<>>
        /\ counters["usage.out"] = httpTunnelMadeErrorSize

\* C12: on every exit of do, tunnelConnect and decryptConnect, error returns
\* included, the bytes the session has read from its client and written to
\* it are among those its accounting adds to the usage counters.
C12_AccountingNeverSkipped ==
    \A s \in Sessions :
        (sess[s].fn \in Handlers /\ Left(s))
            => /\ sess[s].delta["usage.in"] + sess[s].delta["client.in"] >= sess[s].io.read
               /\ sess[s].delta["usage.out"] + sess[s].delta["client.out"] >= sess[s].io.written

Quiescent == \A s \in Sessions : sess[s].pc \in {"idle", "absent", "done", "panic"} /\ sess[s].gos = <<>>

RECURSIVE SumDelta(_, _)
SumDelta(S, c) ==
    IF S = {} THEN 0
    ELSE LET s == CHOOSE x \in S : TRUE IN sess[s].delta[c] + SumDelta(S \ {s}, c)

\* C13: no usage counter ever decreases, and once every session and every
\* accounting goroutine has finished each counter is the sum of what the
\* sessions had to add to it, however their additions interleaved.
C13_CountersAddUp ==
    /\ [][\A c \in Counters : counters'[c] >= counters[c]]_vars
    /\ [](Quiescent => \A c \in Counters : counters[c] = SumDelta(Sessions, c))

\* Two sessions have each added to the same counter and all is quiet.
C13_Witness ==
    /\ Quiescent
    /\ \E s, t \in Sessions, c \in Counters :
           /\ s # t
           /\ sess[s].delta[c] > 0 /\ sess[t].delta[c] > 0
           /\ counters[c] = SumDelta(Sessions, c)

\* C14: with URLProxy unset every request and every CONNECT is served
\* direct: do and tunnelConnect go on without an upstream proxy and without
\* a token, and do not fail for it.
C14_UnsetURLProxyServesDirect ==
    ~handler.URLProxy =>
        \A s \in Sessions :
            /\ sess[s].pc # "panic"
            /\ ~sess[s].superProxy /\ ~sess[s].held

\* The certificate for the CONNECT host, or the one GetCertificate signs for
\* the server name of the client hello, could not be made.
MintFailed(s) ==
    /\ sess[s].fn = "decryptConnect"
    /\ Failed(s)
    /\ \/ sess[s].err = errSignFakeCert
       \/ sess[s].err = errTLSHandshake /\ "GetCertificate" \in Calls(s)

\* C15: in MITM mode every failure to make a leaf certificate, for the
\* CONNECT host or for the server name inside GetCertificate, ends the
\* session with the 501 reply sent to the client and no 200 reply.
C15_MintFailureReplies501 ==
    \A s \in Sessions : MintFailed(s) => sess[s].replies = <<httpTunnelMadeError>>

IsPrefix(p, q) == Len(p) <= Len(q) /\ p = SubSeq(q, 1, Len(p))

\* The calls of sequence log that belong to set S, in their order.
RECURSIVE Only(_, _)
Only(log, S) ==
    IF log = <<>> THEN <<>>
    ELSE IF Head(log) \in S THEN <<Head(log)>> \o Only(Tail(log), S)
    ELSE Only(Tail(log), S)

DecryptSteps == <<"signFakeCert", "sendHTTPSProxyStatusOK", "Handshake", "ReadFrom">>

OnDecrypted == {"ReadFrom", "HijackerPool.Get", "HijackResponse", "hijackClient.Do",
                "URLProxy", "client.Do"}

\* C16: in MITM mode, once the handshake step is over with no server name
\* from the client hello, decryptConnect has failed with the no-sni error
\* and has neither read nor hijacked nor forwarded a decrypted request; the
\* certificate is made, the 200 reply sent, the TLS handshake made and the
\* server name checked, in this order, before the request is read.
C16_NoServerNameNoRequest ==
    \A s \in Sessions :
        sess[s].fn = "decryptConnect" =>
            /\ ("sendHTTPSProxyStatusOK" \in Calls(s) /\ sess[s].sni = "")
                   => /\ Failed(s) /\ sess[s].err = errNoServerName
                      /\ Calls(s) \cap OnDecrypted = {}
            /\ IsPrefix(Only(sess[s].log, Range(DecryptSteps)), DecryptSteps)
            /\ "ReadFrom" \in Calls(s) => sess[s].sni # ""

\* The TLS handshake went through with a client hello that names no server.
C16_Witness ==
    \E s \in Sessions :
        /\ sess[s].fn = "decryptConnect"
        /\ "Handshake" \in Calls(s)
        /\ sess[s].sni = ""
        /\ sess[s].err = errNoServerName

OriginCalls == {"URLProxy", "lookupIP", "AcquireToken", "client.Do", "Dial", "MakeTunnel"}

\* C17: when the hijacker has a response of its own, do answers from it with
\* no origin I/O: URLProxy is not asked, no lookup is made, no token taken
\* and client.Do is not called; and every request gets exactly one hijacker.
C17_HijackedSkipsOrigin ==
    \A s \in Sessions :
        sess[s].fn \in {"do", "decryptConnect"} =>
            /\ "hijackClient.Do" \in Calls(s)
                   => /\ Calls(s) \cap OriginCalls = {}
                      /\ sess[s].acquired["token"] = 0
                      /\ sess[s].pc = "done"
            /\ Len(Only(sess[s].log, {"HijackerPool.Get"})) =
                   (IF "HijackResponse" \in Calls(s) THEN 1 ELSE 0)
            /\ sess[s].acquired["hijacker"] = Len(Only(sess[s].log, {"HijackerPool.Get"}))
            /\ Calls(s) \cap {"hijackClient.Do", "URLProxy", "client.Do"} # {}
                   => "HijackerPool.Get" \in Calls(s)

\* A request was answered by the hijacker, which wrote a response.
C17_Witness ==
    \E s \in Sessions :
        /\ sess[s].fn = "do"
        /\ "hijackClient.Do" \in Calls(s)
        /\ sess[s].io.written > 0
        /\ sess[s].pc = "done"

\* C19: in a raw tunnel, as long as one of the two forwarders is running the
\* session is still waiting for them: it has not started its accounting, no
\* forwarded byte has been counted, and it still holds the token of the
\* upstream proxy, also when the other forwarder has ended with an error.
C19_ForwardersJoinedFirst ==
    \A s \in Sessions :
        (sess[s].fn = "tunnelConnect" /\ sess[s].fwd # {})
            => /\ sess[s].pc = "tunnel.forward"
               /\ sess[s].gos = <<>> /\ sess[s].delta = NoUsage /\ sess[s].applied = NoUsage
               /\ sess[s].superProxy
                      => sess[s].held /\ sess[s].released["token"] = 0 /\ tokens < PoolSize

\* One forwarder of a tunnel through the upstream proxy has ended with an
\* error, the other is still running.
C19_Witness ==
    \E s \in Sessions :
        /\ sess[s].fn = "tunnelConnect" /\ sess[s].superProxy
        /\ sess[s].fwd = {"down"}
        /\ sess[s].up.err

\* C20: what a session has given back never exceeds what it took; when do,
\* tunnelConnect or decryptConnect has left, by a return, an error return or
\* a panic, every pooled object and every token the session took has been
\* given back exactly once; and when no session is running the token pool
\* is full.
C20_EverythingReleasedOnce ==
    /\ \A s \in Sessions, k \in Pooled :
           /\ sess[s].released[k] <= sess[s].acquired[k]
           /\ sess[s].acquired[k] <= 1
           /\ (sess[s].fn \in Handlers /\ Left(s)) => sess[s].released[k] = sess[s].acquired[k]
    /\ (\A s \in Sessions : sess[s].pc \in {"idle", "absent", "done", "panic"})
           => tokens = PoolSize

\* A decrypted request went through the upstream proxy and failed: the
\* session took all six kinds of objects and has given all of them back.
C20_Witness ==
    \E s \in Sessions :
        /\ sess[s].fn = "decryptConnect"
        /\ Failed(s) /\ sess[s].err = errClientDo
        /\ \A k \in Pooled : sess[s].acquired[k] = 1 /\ sess[s].released[k] = 1
        /\ tokens = PoolSize

----------------------------------------------------------------------------
(* Claims about the routing of a request without a host and about the     *)
(* error decryptConnect returns.                                           *)

\* The request has been parsed, its hostWithPort is empty, and do has got
\* as far as its hijacker or tunnelConnect has been entered.
EmptyHost(s) ==
    /\ HostWithPort(ParseHostWithPort(sess[s].host)) = ""
    /\ \/ sess[s].fn = "tunnelConnect" /\ sess[s].pc # "tunnelConnect"
       \/ sess[s].fn \in {"do", "decryptConnect"} /\ "HijackResponse" \in Calls(s)

\* C21: a request whose hostWithPort is empty makes do and tunnelConnect end
\* with session-unavailable, with no token of the upstream proxy taken and
\* no connection or tunnel to the origin opened.
C21_EmptyHostSessionUnavailable ==
    \A s \in Sessions :
        EmptyHost(s)
            => /\ sess[s].acquired["token"] = 0
               /\ Calls(s) \cap {"AcquireToken", "Dial", "MakeTunnel", "client.Do"} = {}
               /\ Left(s) => sess[s].pc = "done" /\ sess[s].err = ErrSessionUnavailable

\* decryptConnect has made its handshake step: the 200 reply and, when that
\* was written, the TLS handshake with the client.
Shaken(s) == sess[s].fn = "decryptConnect" /\ "sendHTTPSProxyStatusOK" \in Calls(s)

\* C22: the error decryptConnect returns names the phase that failed: when
\* the write of the 200 reply or the TLS handshake with the client fails,
\* that error is returned, and the no-sni error is returned only after a
\* handshake that succeeded with an empty server name.
C22_ErrorNamesFailedPhase ==
    \A s \in Sessions :
        Shaken(s)
            => /\ sess[s].handShakeErr # errNil
                      => Failed(s) /\ sess[s].err = sess[s].handShakeErr
               /\ sess[s].err = errNoServerName
                      => sess[s].handShakeErr = errNil /\ sess[s].sni = ""

----------------------------------------------------------------------------
(* Termination of ParseHeaderFields.                                       *)

\* A header line longer than the reader's buffer, and what the peer has sent
\* of it when it stops: no line feed is among these bytes.
LongLine == [i \in 1..(ReaderSize + 1) |-> IF i = 1 THEN "X" ELSE "a"]

LoopBlocks == { SubSeq(LongLine, 1, k) : k \in 1..Len(LongLine) } \cup EmptyLines

LoopInit ==
    /\ block \in LoopBlocks
    /\ cap \in Capacities
    /\ \E pre \in {0, Min(Len(Stream), ReaderSize)} : win = Slice(Stream, 0, pre)
    /\ discarded = 0
    /\ closed = FALSE
    /\ n = 1
    /\ pc = "parse"
    /\ result = errNil
    /\ header = Reset([isConnectionClose |-> TRUE, contentLength |-> -2])
    /\ buffer = <<>>
    /\ retried = FALSE
    /\ sess = [s \in Sessions |-> NoSession]
    /\ tokens = PoolSize
    /\ counters = NoUsage
    /\ handler = [URLProxy |-> TRUE]
    /\ NoWrites

\* The loop of ParseHeaderFields, lines 58-70, runs on as long as it has an
\* iteration to make: the goroutine is not starved, and every Peek returns.
LoopSpec == LoopInit /\ [][Next]_vars /\ WF_vars(Next)

\* C23: ParseHeaderFields always returns: for every stream and every size of
\* the reader's buffer the loop ends, with success or with an error.
C23_AlwaysReturns == <>(pc = "done")

----------------------------------------------------------------------------
(* The parse and the way the bytes arrive.                                 *)

\* ParseHeaderFields with the whole header block buffered before its first
\* iteration: one call of readHeaders on the block as the peer sent it.
WholeBlock == readHeaders(block, Reset(header), <<>>, cap)

----------------------------------------------------------------------------
(* One Header through a sequence of parses.                                *)

ContentLengthNegative == contentLengthHeader \o <<":"," ","-","5","\r","\n">>

SeqLines ==
    { ContentLength5, ContentLengthNegative, ContentLength0,
      transferEncoding \o <<":"," ","c","h","u","n","k","e","d","\r","\n">>,
      transferEncoding \o <<":"," ","i","d","e","n","t","i","t","y","\n">>,
      connectionHeader \o <<":"," ","C","l","o","s","e","\r","\n">> }

\* One header line and the empty line: these blocks fit the reader's buffer.
SeqBlocks == { l \o <<CR, LF>> : l \in SeqLines }

SeqInit ==
    /\ block \in SeqBlocks
    /\ cap = LargeCap
    /\ \E pre \in {0, Min(Len(Stream), ReaderSize)} : win = Slice(Stream, 0, pre)
    /\ discarded = 0
    /\ closed = FALSE
    /\ n = 1
    /\ pc = "parse"
    /\ result = errNil
    /\ header = Reset([isConnectionClose |-> TRUE, contentLength |-> -2])
    /\ buffer = <<>>
    /\ retried = FALSE
    /\ sess = [s \in Sessions |-> NoSession]
    /\ tokens = PoolSize
    /\ counters = NoUsage
    /\ handler = [URLProxy |-> TRUE]
    /\ NoWrites

\* ParseHeaderFields has returned and is called again with the same Header,
\* which the caller has Reset (header.go:22-25) or not, on the next message
\* b, with a fresh reader and an empty target buffer.
ParseAgain(b, reset) ==
    /\ pc = "done"
    /\ block' = b
    /\ header' = IF reset THEN Reset(header) ELSE header
    /\ win' = <<>>
    /\ discarded' = 0
    /\ closed' = FALSE
    /\ n' = 1
    /\ pc' = "parse"
    /\ result' = errNil
    /\ buffer' = <<>>
    /\ retried' = FALSE
    /\ UNCHANGED <<cap, svars, bvars>>

\* The blocks of SeqBlocks never fill the reader's buffer: TryReadFull has no
\* part in these parses.
SeqNext ==
    \/ TryReadBuffered
    \/ TryReadData
    \/ \E e \in ReadErrors : TryReadError(e)
    \/ \E b \in SeqBlocks, reset \in BOOLEAN : ParseAgain(b, reset)

SeqSpec == SeqInit /\ [][SeqNext]_vars

\* C25: in every state of a Header, after Reset and after any sequence of
\* parses, at most one body framing is reported: ContentLength() > 0,
\* IsBodyChunked() and IsBodyIdentity() exclude each other, ContentLength()
\* is never negative and is 0 when the stored value is -1 or -2, the stored
\* contentLength is never below -2, and after Reset none of the three
\* reports a body and IsConnectionClose() is false.
C25_OneBodyFraming ==
    /\ [](/\ ~(ContentLength(header) > 0 /\ IsBodyChunked(header))
          /\ ~(ContentLength(header) > 0 /\ IsBodyIdentity(header))
          /\ ~(IsBodyChunked(header) /\ IsBodyIdentity(header))
          /\ ContentLength(header) >= 0
          /\ header.contentLength \in {-1, -2} => ContentLength(header) = 0
          /\ header.contentLength >= -2)
    /\ [][(\E b \in SeqBlocks : ParseAgain(b, TRUE))
              => /\ ContentLength(header') = 0
                 /\ ~IsBodyChunked(header') /\ ~IsBodyIdentity(header')
                 /\ ~IsConnectionClose(header')]_vars

\* A Header that an earlier parse left chunked has been through the parse of
\* a negative Content-Length, which left it as it was.
C25_Witness ==
    /\ Succeeded
    /\ block = ContentLengthNegative \o <<CR, LF>>
    /\ IsBodyChunked(header)

====
